---- MODULE Spec2Model ----
(***************************************************************************)
(* A model of bucaar/AsyncGame: the line transport (streams_util.py), the  *)
(* connection registry (server.py) and the session orchestrator            *)
(* (game_manager.py) driving the game contract (game.py).                  *)
(*                                                                         *)
(* The specifications share the variables:                                 *)
(*   SpecLine   readline/writeline over a byte stream cut into chunks;     *)
(*   SpecNorm   the normalisation of names;                                *)
(*   SpecAttr   the counters of a connection;                              *)
(*   SpecReg    the registry under an arbitrary application;               *)
(*   SpecHello  the handshake; SpecClose the teardown;                     *)
(*   SpecPrefix the line prefixes; SpecWrite peers that send ahead;        *)
(*   Spec       the orchestrator's game loop on top of the registry;       *)
(*   SpecFan    the same under fair scheduling;                            *)
(*   SpecSup    GameManager.start supervising its tasks.                   *)
(* Text is a sequence of characters, bytes a sequence of byte names; the   *)
(* character "E" stands for a two-byte UTF-8 character (bytes E1 E2).      *)
(***************************************************************************)
EXTENDS Integers, Sequences, FiniteSets, TLC

VARIABLES
    lt,        \* line transport: the stream, Connection.buffer, readline's locals
    server,    \* Server: connections, names, old_attributes, the two event queues
    conn,      \* Connection objects: name, type, attributes (a reference), writer state
               \* (closing; quit: a quit line was written and the transport is open)
    heap,      \* the attribute dicts, by reference
    net,       \* the peers: not connected yet, connected
    task,      \* positions of handle_connection, ping_connection, get_response tasks
    app,       \* the application of SpecReg: calls made so far; the text of SpecNorm
    gm,        \* GameManager: game, players, start_cooldown, queues, position, locals
    obs        \* observations: what was called, enqueued and registered so far

vars == <<lt, server, conn, heap, net, task, app, gm, obs>>

(***************************************************************************)
(* Bounds of the model.                                                    *)
(***************************************************************************)
MaxLines == 2
MaxConns == 3
MaxAppCalls == 3
MaxCount == 2
MaxSessions == 2
MaxRounds == 2
MaxQueue == 0
MaxPending == 0
MaxClosed == 1
MaxRawLen == 3
MaxAmount == 2

(***************************************************************************)
(* Sequence helpers.                                                       *)
(***************************************************************************)
Min(a, b) == IF a < b THEN a ELSE b

Last(s) == s[Len(s)]

IsPrefix(s, t) == Len(s) <= Len(t) /\ SubSeq(t, 1, Len(s)) = s

SeqToSet(s) == {s[i] : i \in DOMAIN s}

SeqRemove(s, x) ==
    \* list.remove(x): drops the first occurrence
    LET i == CHOOSE k \in DOMAIN s : s[k] = x /\ \A j \in 1..(k - 1) : s[j] # x
    IN  SubSeq(s, 1, i - 1) \o SubSeq(s, i + 1, Len(s))

OccursAt(s, pat, i) == i + Len(pat) - 1 <= Len(s) /\ SubSeq(s, i, i + Len(pat) - 1) = pat

Contains(s, pat) == \E i \in 1..Len(s) : OccursAt(s, pat, i)

IndexOf(s, pat) == CHOOSE i \in 1..Len(s) : OccursAt(s, pat, i) /\ \A j \in 1..(i - 1) : ~OccursAt(s, pat, j)

EndsWith(s, pat) == Len(pat) <= Len(s) /\ SubSeq(s, Len(s) - Len(pat) + 1, Len(s)) = pat

(***************************************************************************)
(* streams_util.py: text, bytes and the two delimiters.                    *)
(***************************************************************************)
LF == <<"LF">>
CRLF == <<"CR", "LF">>
None == <<"None">>
ReadLimit == 100

EncodeChar(ch) == IF ch = "E" THEN <<"E1", "E2">> ELSE <<ch>>

RECURSIVE Encode(_)
Encode(text) ==
    \* str.encode(): one character may take several bytes
    IF text = <<>> THEN <<>> ELSE EncodeChar(Head(text)) \o Encode(Tail(text))

RECURSIVE Decode(_)
Decode(bytes) ==
    \* bytes.decode(): fails on a character cut in two
    IF bytes = <<>> THEN [ok |-> TRUE, text |-> <<>>]
    ELSE IF Head(bytes) = "E1"
         THEN IF Len(bytes) >= 2 /\ bytes[2] = "E2"
              THEN LET r == Decode(SubSeq(bytes, 3, Len(bytes)))
                   IN  [ok |-> r.ok, text |-> <<"E">> \o r.text]
              ELSE [ok |-> FALSE, text |-> <<>>]
    ELSE IF Head(bytes) = "E2" THEN [ok |-> FALSE, text |-> <<>>]
    ELSE LET r == Decode(Tail(bytes))
         IN  [ok |-> r.ok, text |-> <<Head(bytes)>> \o r.text]

SplitOnce(message, eol) ==
    \* message.split(eol, 1)
    LET i == IndexOf(message, eol)
    IN  <<SubSeq(message, 1, i - 1), SubSeq(message, i + Len(eol), Len(message))>>

EolFound(message) ==
    \* for eol in ["\r\n", "\n"]: if eol in message
    IF Contains(message, CRLF) THEN CRLF
    ELSE IF Contains(message, LF) THEN LF
    ELSE <<>>

RECURSIVE DrainBuffer(_, _)
DrainBuffer(message, buffer) ==
    \* readline's first loop, over Connection.buffer
    IF buffer = <<>> THEN [ret |-> FALSE, message |-> message, buffer |-> buffer]
    ELSE LET m == message \o Head(buffer)
             rest == Tail(buffer)
             eol == EolFound(m)
         IN  IF eol # <<>>
             THEN LET sp == SplitOnce(m, eol)
                  IN  [ret |-> TRUE, message |-> sp[1],
                       buffer |-> IF sp[2] # <<>> THEN <<sp[2]>> \o rest ELSE rest]
             ELSE DrainBuffer(m, rest)

WriteLineBytes(message) ==
    \* writeline: a trailing "\n" is added when absent
    Encode(IF EndsWith(message, LF) THEN message ELSE message \o LF)

(***************************************************************************)
(* The application lines of SpecLine: a content and the delimiter the      *)
(* caller put itself (none, "\n" or "\r\n").                               *)
(***************************************************************************)
Contents == {<<>>, <<"a">>, <<"E">>}
OwnDelims == {<<>>, LF, CRLF}
AppLines == [content : Contents, delim : OwnDelims]
Tails == {<<>>, <<"a">>}

RECURSIVE WireOf(_)
WireOf(lines) ==
    IF lines = <<>> THEN <<>>
    ELSE WriteLineBytes(Head(lines).content \o Head(lines).delim) \o WireOf(Tail(lines))

LinesUpTo(n) == UNION {[1..k -> AppLines] : k \in 0..n}

LtIdle == [lines |-> <<>>, tail |-> <<>>, wire |-> <<>>, buffer |-> <<>>, pc |-> "off",
           data |-> <<>>, out |-> <<>>, eofRead |-> FALSE, reset |-> FALSE]

InitLt ==
    \E lines \in LinesUpTo(MaxLines), tail \in Tails :
        lt = [LtIdle EXCEPT !.lines = lines, !.tail = tail,
                            !.wire = WireOf(lines) \o tail, !.pc = "idle"]

ReadlineReturn(l, message, buffer) ==
    \* "return message" (None: the function falls off its end)
    [l EXCEPT !.pc = "idle", !.data = <<>>, !.buffer = buffer,
              !.out = @ \o <<message>>, !.eofRead = FALSE]

ReadlineStart(l) ==
    \* readline up to its first reader.read: the buffered text is drained
    LET d == DrainBuffer(<<>>, l.buffer)
    IN  IF d.ret THEN ReadlineReturn(l, d.message, d.buffer)
        ELSE [l EXCEPT !.pc = "reading", !.buffer = d.buffer, !.data = Encode(d.message)]

ReadlineLoopBody(l, data, n) ==
    \* one turn of "while data := data + await reader.read(100)", n bytes read
    IF data = <<>> THEN ReadlineReturn(l, None, l.buffer)
    ELSE LET dec == Decode(data)
             eol == EolFound(dec.text)
         IN  IF ~dec.ok THEN [l EXCEPT !.pc = "raised", !.data = data]
             ELSE IF eol # <<>>
                  THEN LET sp == SplitOnce(dec.text, eol)
                       IN  ReadlineReturn(l, sp[1], IF sp[2] # <<>>
                                                    THEN l.buffer \o <<sp[2]>>
                                                    ELSE l.buffer)
             ELSE [l EXCEPT !.data = data, !.eofRead = (n = 0)]

ReadlineAfterReset(l) ==
    \* except ConnectionResetError: pass; then "if data: return data.decode()"
    IF l.data = <<>> THEN ReadlineReturn(l, None, l.buffer)
    ELSE LET dec == Decode(l.data)
         IN  IF dec.ok THEN ReadlineReturn(l, dec.text, l.buffer)
             ELSE [l EXCEPT !.pc = "raised"]

ReadlineCall ==
    /\ lt.pc = "idle"
    /\ IF lt.out = <<>> THEN TRUE ELSE Last(lt.out) # None
    /\ lt' = ReadlineStart(lt)
    /\ UNCHANGED <<server, conn, heap, net, task, app, gm, obs>>

ReadlineRead ==
    \* reader.read(100) returns n bytes of the stream, none at end-of-stream
    /\ lt.pc = "reading"
    /\ ~lt.reset
    /\ \E n \in 0..Min(ReadLimit, Len(lt.wire)) :
        /\ n = 0 <=> lt.wire = <<>>
        /\ lt' = ReadlineLoopBody(
                    [lt EXCEPT !.wire = SubSeq(lt.wire, n + 1, Len(lt.wire))],
                    lt.data \o SubSeq(lt.wire, 1, n), n)
    /\ UNCHANGED <<server, conn, heap, net, task, app, gm, obs>>

ReadlineReset ==
    \* reader.read raises ConnectionResetError: what was not read yet is lost
    /\ lt.pc = "reading"
    /\ ~lt.eofRead
    /\ lt' = ReadlineAfterReset([lt EXCEPT !.wire = <<>>, !.reset = TRUE])
    /\ UNCHANGED <<server, conn, heap, net, task, app, gm, obs>>

(***************************************************************************)
(* Claims on the line transport (SpecLine).                                *)
(***************************************************************************)
RECURSIVE ContentsOf(_)
ContentsOf(lines) ==
    IF lines = <<>> THEN <<>> ELSE <<Head(lines).content>> \o ContentsOf(Tail(lines))

\* C9: framing round-trip. Lines written with writeline and read back with
\* readline, whatever the chunks the transport delivers, come back as the
\* original lines, in order, followed by end-of-stream: at every moment what
\* readline returned so far is a prefix of that, and readline did not raise.
C9_FramingRoundTrip ==
    (lt.pc # "off" /\ lt.tail = <<>> /\ ~lt.reset)
        => (lt.pc # "raised" /\ IsPrefix(lt.out, ContentsOf(lt.lines) \o <<None>>))

\* C10: readline ends at end-of-stream. Once reader.read has returned zero
\* bytes the call has returned (the pending bytes as a last line, or
\* end-of-stream): it is never still in its read loop.
C10_ReadlineEndsAtEof == ~(lt.pc = "reading" /\ lt.eofRead)

(***************************************************************************)
(* server.py: values.  A line is a sequence of tokens; a name is a         *)
(* sequence of characters.  A dict is a function on its keys.              *)
(***************************************************************************)
Conns == 1..MaxConns

DictPut(d, k, v) == [x \in (DOMAIN d) \cup {k} |-> IF x = k THEN v ELSE d[x]]

DictDel(d, k) == [x \in (DOMAIN d) \ {k} |-> d[x]]

EmptyDict == <<>>

Quit == <<"quit">>
Hello == <<"HELLO">>
Ping == <<"PING">>
GetLine == <<"GET /">>
Junk == <<"junk">>
NamePrompt == <<"What is your name?">>
HttpReply == <<"HTTP/1.0 200 OK">>
SorryLetters == <<"Sorry, you must have letters or numbers in your name">>
SorryShort == <<"Sorry, your name must be 2 or more letters">>
SorryLong == <<"Sorry, your name must be 10 or fewer letters">>
SorryUsed == <<"Sorry, that name is already being used">>

AlNum == {"a", "b", "o", "1"}
Space == {" "}
MinNameLen == 2
MaxNameLen == 10

RECURSIVE LStrip(_)
LStrip(text) ==
    IF text # <<>> /\ Head(text) \in Space THEN LStrip(Tail(text)) ELSE text

RECURSIVE RStrip(_)
RStrip(text) ==
    IF text # <<>> /\ Last(text) \in Space THEN RStrip(SubSeq(text, 1, Len(text) - 1))
    ELSE text

Strip(text) == RStrip(LStrip(text))

RECURSIVE SubNonAlNum(_, _)
SubNonAlNum(text, inRun) ==
    \* re.sub("[^a-zA-Z0-9]+", "_", text): inRun says the run was already replaced
    IF text = <<>> THEN <<>>
    ELSE IF Head(text) \in AlNum THEN <<Head(text)>> \o SubNonAlNum(Tail(text), FALSE)
    ELSE IF inRun THEN SubNonAlNum(Tail(text), TRUE)
    ELSE <<"_">> \o SubNonAlNum(Tail(text), TRUE)

NormalizeMutEachChar(raw) ==
    [i \in 1..Len(Strip(raw)) |-> IF Strip(raw)[i] \in AlNum THEN Strip(raw)[i] ELSE "_"]

Normalize(raw) ==
    \* name.strip() then re.sub("[^a-zA-Z0-9]+", "_", name)
    SubNonAlNum(Strip(raw), FALSE)

AddrName(c) == <<":", ToString(c)>>

Reply(c) == <<"reply", ToString(c)>>

IncrementAttribute(attributes, attribute, amount) ==
    \* Connection.increment_attribute: the counter is raised by 1
    LET base == IF attribute \in DOMAIN attributes THEN attributes
                ELSE DictPut(attributes, attribute, 0)
    IN  [base EXCEPT ![attribute] = @ + 1]

PrefixMessage(message, expected_response) ==
    IF message # <<>> /\ Head(message) \in {"Y: ", "N: "} THEN message
    ELSE IF expected_response THEN <<"Y: ">> \o message
    ELSE <<"N: ">> \o message

(***************************************************************************)
(* The registry's operations as functions of the state they change:        *)
(* W = [server, conn, obs].  hp is the heap (read only here), ok the       *)
(* outcome of a write on a transport whose peer is gone.                   *)
(***************************************************************************)
EnqCap == 2

IsClosed(W, k) == W.conn[k].closing

Prefixed(message) == message # <<>> /\ Head(message) \in {"Y: ", "N: "}

Begins(message, prefix) == message # <<>> /\ Head(message) = prefix

Written(W, k, message) ==
    \* writer.write(message.encode()) went through
    [W EXCEPT !.obs.afterQuit = IF W.conn[k].quit THEN @ \cup {k} ELSE @,
              !.obs.lateWrites = IF W.conn[k].closing THEN @ \cup {k} ELSE @,
              !.obs.bare = IF /\ W.conn[k].type = "SOCKET"
                              /\ message # Ping
                              /\ ~Prefixed(message)
                           THEN @ \cup {k} ELSE @]

WriteLineMutNoClosingCheck(W, k, message, ok) ==
    IF ok THEN <<Written(W, k, message), TRUE>>
    ELSE <<[W EXCEPT !.conn[k].closing = TRUE, !.obs.failed = @ \cup {k}], FALSE>>

WriteLine(W, k, message, ok) ==
    \* writeline: <<state, success>>.  A write that hits a reset or a broken pipe
    \* leaves the transport closing.
    IF IsClosed(W, k) THEN <<[W EXCEPT !.obs.failed = @ \cup {k}], FALSE>>
    ELSE IF ok
         THEN <<Written(W, k, message), TRUE>>
    ELSE <<[W EXCEPT !.conn[k].closing = TRUE, !.obs.failed = @ \cup {k}], FALSE>>

CloseTail(W, k, hp) ==
    \* close_connection after its quit message: server.py lines 139-154
    LET c == W.conn[k]
        s == W.server
    IN  [W EXCEPT
            !.server.connections =
                IF k \in SeqToSet(s.connections) THEN SeqRemove(s.connections, k) ELSE @,
            !.server.names =
                IF c.name \in DOMAIN s.names THEN DictDel(s.names, c.name) ELSE @,
            !.conn[k].closing = TRUE,
            !.conn[k].quit = FALSE,
            !.server.old_attributes =
                IF hp[c.attributes] # EmptyDict THEN DictPut(@, c.name, c.attributes) ELSE @,
            !.server.disconnection_queue = Append(@, k),
            !.obs.enq[k] = Min(@ + 1, EnqCap),
            !.obs.saved = IF k \in SeqToSet(s.connections) /\ hp[c.attributes] # EmptyDict
                          THEN DictPut(@, c.name, hp[c.attributes]) ELSE @]

RECURSIVE CloseConnection(_, _, _, _)
RECURSIVE SendMessage(_, _, _, _, _)
CloseConnection(W, k, ok, hp) ==
    CloseTail(IF ~IsClosed(W, k) THEN SendMessage(W, k, Quit, ok, hp) ELSE W, k, hp)

SendMessage(W, k, message, ok, hp) ==
    LET m == IF W.conn[k].type = "SOCKET" THEN PrefixMessage(message, FALSE) ELSE message
        w == WriteLine(W, k, m, ok)
    IN  IF w[2] THEN w[1] ELSE CloseConnection(w[1], k, ok, hp)

ReadMessageMutQuitKept(W, k, response, ok, hp) ==
    IF response = None THEN <<CloseConnection(W, k, ok, hp), None>>
    ELSE IF response = Quit THEN <<W, None>>
    ELSE <<W, response>>

ReadMessage(W, k, response, ok, hp) ==
    \* read_message once readline returned response: <<state, result>>
    IF response = None \/ response = Quit THEN <<CloseConnection(W, k, ok, hp), None>>
    ELSE <<W, response>>

GetResponseSend(W, k, prompt, ok, hp) ==
    \* get_response up to its read
    LET socket == W.conn[k].type = "SOCKET"
        m == IF socket THEN PrefixMessage(prompt, TRUE) ELSE prompt
        written == ~IsClosed(W, k) /\ ok
    IN  [SendMessage(W, k, m, ok, hp) EXCEPT
            !.obs.unasked = IF socket /\ written /\ ~Begins(PrefixMessage(m, FALSE), "Y: ")
                            THEN @ \cup {k} ELSE @]

NameExists(W, name) == name \in DOMAIN W.server.names

Register(W, k, name, hp) ==
    \* handle_hello_connection from "connection.name = name" to its end
    LET old == W.server.old_attributes
        ref == IF name \in DOMAIN old THEN old[name] ELSE W.conn[k].attributes
    IN  [W EXCEPT
            !.conn[k].name = name,
            !.conn[k].attributes = ref,
            !.server.connections = Append(@, k),
            !.server.names = DictPut(@, name, k),
            !.server.connection_queue = Append(@, k),
            !.obs.registered = @ \cup {k},
            !.obs.start[k] = hp[ref],
            !.obs.expect[k] = IF name \in DOMAIN W.obs.saved THEN W.obs.saved[name]
                              ELSE hp[ref],
            !.obs.saved = IF name \in DOMAIN @ THEN DictDel(@, name) ELSE @]

Rejection(W, name) ==
    \* the message of the check that rejects name, <<>> when it is accepted
    IF name = <<>> \/ name = <<"_">> THEN SorryLetters
    ELSE IF Len(name) < MinNameLen THEN SorryShort
    ELSE IF Len(name) > MaxNameLen THEN SorryLong
    ELSE IF NameExists(W, name) THEN SorryUsed
    ELSE <<>>

(***************************************************************************)
(* The registry's state and steps.                                         *)
(***************************************************************************)
ServerInit == [connections |-> <<>>, names |-> EmptyDict, old_attributes |-> EmptyDict,
               connection_queue |-> <<>>, disconnection_queue |-> <<>>]

ConnInit == [c \in Conns |-> [name |-> AddrName(c), type |-> "", attributes |-> c,
                              closing |-> FALSE, quit |-> FALSE]]

TaskInit == [h |-> [c \in Conns |-> "none"], ping |-> [c \in Conns |-> "off"],
             resp |-> [c \in Conns |-> [pc |-> "idle", result |-> None]],
             \* start_server is serving; GameManager.start is not modelled ("off")
             \* or waits for the first of its three tasks
             accept |-> "serving", sup |-> "off"]

ObsInit == [enq |-> [c \in Conns |-> 0], registered |-> {},
            start |-> [c \in Conns |-> EmptyDict],
            expect |-> [c \in Conns |-> EmptyDict],
            saved |-> EmptyDict,
            \* the orchestrator's sessions
            started |-> 0, ended |-> 0, constructed |-> 1, causes |-> {},
            inSession |-> FALSE, roster |-> <<>>, cause |-> "", abortedBy |-> 0,
            gameOverCalls |-> 0, snapshotFirst |-> TRUE, diedAfterClose |-> FALSE,
            outsiders |-> 0,
            \* connections a line was written to after their quit line
            afterQuit |-> {},
            \* socket connections that were written a line other than PING without
            \* prefix, a get_response line not beginning with "Y: ", a send_message
            \* line of the application not beginning with "N: "
            bare |-> {}, unasked |-> {}, untold |-> {},
            \* connections a line was written to when their transport was closed
            lateWrites |-> {},
            \* connections a write to which returned failure
            failed |-> {},
            \* connections a get_response task was created on while an earlier one
            \* on the same connection was not done
            overlapped |-> {},
            \* the values of the countdown frames since the countdown was last reset
            countdown |-> <<>>,
            \* the frame the visualizer was handed last
            shown |-> <<>>,
            \* the current round
            lateFanout |-> FALSE, completed |-> <<>>, onOut |-> <<>>, handled |-> <<>>]

World == [server |-> server, conn |-> conn, obs |-> obs]

SetWorld(W) == server' = W.server /\ conn' = W.conn /\ obs' = W.obs

WriteOk(c) ==
    \* a write succeeds, or fails because the peer is gone (reset, broken pipe)
    BOOLEAN

Incoming(c, lines) ==
    \* what readline returns on c: a line of the peer, or end-of-stream (the only
    \* outcome once the transport is closed)
    IF conn[c].closing THEN {None} ELSE lines \cup {None}

RawNames == {<<"b", "o">>, <<"!", "a", "!">>, <<"!", "!", "!">>}

ShortRaw == <<"a">>

FullRaw == [i \in 1..MaxNameLen |-> "a"]

LongRaw == [i \in 1..(MaxNameLen + 1) |-> "a"]

NameRequests == RawNames \cup {ShortRaw, LongRaw}

Accept(c) ==
    \* a peer connects: handle_connection runs up to its first read
    /\ task.accept = "serving"
    /\ net[c] = "none"
    /\ \A d \in Conns : d < c => net[d] # "none"
    /\ net' = [net EXCEPT ![c] = "connected"]
    /\ task' = [task EXCEPT !.h[c] = "first_read"]
    /\ UNCHANGED <<lt, server, conn, heap, app, gm, obs>>

HandleFirst(c, firsts, oks) ==
    \* handle_connection after its first read
    /\ task.h[c] = "first_read"
    /\ \E line \in firsts, ok \in oks :
        LET r == ReadMessage(World, c, line, ok, heap)
        IN  IF r[2] = None THEN
                SetWorld(r[1]) /\ task' = [task EXCEPT !.h[c] = "done"]
            ELSE IF Head(r[2]) = "GET /" THEN
                /\ SetWorld([r[1] EXCEPT !.conn[c].type = "BROWSER"])
                /\ task' = [task EXCEPT !.h[c] = "browser_read"]
            ELSE IF r[2] = Hello THEN
                /\ SetWorld(GetResponseSend([r[1] EXCEPT !.conn[c].type = "SOCKET"],
                                            c, NamePrompt, ok, heap))
                /\ task' = [task EXCEPT !.h[c] = "name_read"]
            ELSE
                SetWorld(r[1]) /\ task' = [task EXCEPT !.h[c] = "done"]
    /\ UNCHANGED <<lt, heap, net, app, gm>>

HandleBrowser(c) ==
    \* handle_browser_connection: one read of its loop, and its end
    /\ task.h[c] = "browser_read"
    /\ \E line \in Incoming(c, {<<"header">>, <<>>}), ok \in WriteOk(c) :
        LET r == ReadMessage(World, c, line, ok, heap)
        IN  IF r[2] = None \/ r[2] = <<>> THEN
                /\ SetWorld([SendMessage(r[1], c, HttpReply, ok, heap)
                                EXCEPT !.conn[c].closing = TRUE])
                /\ task' = [task EXCEPT !.h[c] = "done"]
            ELSE
                SetWorld(r[1]) /\ UNCHANGED task
    /\ UNCHANGED <<lt, heap, net, app, gm>>

HandleName(c, raws, oks) ==
    \* handle_hello_connection: one turn of its loop, after get_response's read
    /\ task.h[c] = "name_read"
    /\ \E line \in raws, ok \in oks :
        LET r == ReadMessage(World, c, line, ok, heap)
            name == Normalize(r[2])
            sorry == Rejection(r[1], name)
        IN  IF r[2] = None THEN
                SetWorld(r[1]) /\ task' = [task EXCEPT !.h[c] = "done"]
            ELSE IF sorry # <<>> THEN
                /\ SetWorld(GetResponseSend(SendMessage(r[1], c, sorry, ok, heap),
                                            c, NamePrompt, ok, heap))
                /\ UNCHANGED task
            ELSE
                /\ SetWorld(Register(r[1], c, name, heap))
                /\ task' = [task EXCEPT !.h[c] = "done", !.ping[c] = "on"]
    /\ UNCHANGED <<lt, heap, net, app, gm>>

PingConnection(c, oks) ==
    \* ping_connection: one turn of its loop
    /\ task.ping[c] = "on"
    /\ \E ok \in oks :
        IF IsClosed(World, c) THEN
            task' = [task EXCEPT !.ping[c] = "done"] /\ UNCHANGED <<server, conn, obs>>
        ELSE LET w == WriteLine(World, c, Ping, ok)
             IN  IF w[2] THEN SetWorld(w[1]) /\ UNCHANGED task
                 ELSE /\ SetWorld(CloseConnection(w[1], c, ok, heap))
                      /\ task' = [task EXCEPT !.ping[c] = "done"]
    /\ UNCHANGED <<lt, heap, net, app, gm>>

RespSend(c, prompt, oks) ==
    \* a get_response task starts: the prompt is sent
    /\ task.resp[c].pc = "send"
    /\ \E ok \in oks : SetWorld(GetResponseSend(World, c, prompt, ok, heap))
    /\ task' = [task EXCEPT !.resp[c].pc = "read"]
    /\ UNCHANGED <<lt, heap, net, app, gm>>

Completed(W, c) ==
    \* asyncio.wait sees the task of c done
    [W EXCEPT !.obs.completed = IF c \in gm.response_tasks THEN Append(@, c) ELSE @]

RespRead(c, lines, oks, drains) ==
    \* the task's read_message returns and the task is done, unless the quit
    \* line of close_connection is written and writer.drain() has to wait
    /\ task.resp[c].pc = "read"
    /\ \E line \in lines, ok \in oks, drain \in drains :
        LET r == ReadMessage(World, c, line, ok, heap)
        IN  IF line \in {None, Quit} /\ ~IsClosed(World, c) /\ ok /\ drain THEN
                /\ SetWorld([World EXCEPT !.conn[c].quit = TRUE])
                /\ task' = [task EXCEPT !.resp[c].pc = "quit_drain"]
            ELSE
                /\ SetWorld(Completed(r[1], c))
                /\ task' = [task EXCEPT !.resp[c] = [pc |-> "done", result |-> r[2]]]
    /\ UNCHANGED <<lt, heap, net, app, gm>>

RespCloseTail(c, oks) ==
    \* writer.drain() returns or raises: close_connection goes on after its quit
    \* message, read_message returns None and the task is done
    /\ task.resp[c].pc = "quit_drain"
    /\ \E ok \in oks :
        LET W == IF ok \/ IsClosed(World, c) THEN World
                 ELSE CloseConnection([World EXCEPT !.conn[c].closing = TRUE], c, ok, heap)
        IN  SetWorld(Completed(CloseTail(W, c, heap), c))
    /\ task' = [task EXCEPT !.resp[c] = [pc |-> "done", result |-> None]]
    /\ UNCHANGED <<lt, heap, net, app, gm>>

CallIncrementAttribute(c, attrs) ==
    \* the game credits a live connection
    /\ c \in SeqToSet(server.connections)
    /\ app.calls < MaxAppCalls
    /\ app' = [app EXCEPT !.calls = @ + 1]
    /\ \E a \in attrs, amount \in {1, 2} :
        /\ IF a \in DOMAIN heap[conn[c].attributes]
           THEN heap[conn[c].attributes][a] < MaxCount ELSE TRUE
        /\ heap' = [heap EXCEPT ![conn[c].attributes] = IncrementAttribute(@, a, amount)]
    /\ UNCHANGED <<lt, server, conn, net, task, gm, obs>>

(***************************************************************************)
(* SpecReg: the registry under any application.                            *)
(***************************************************************************)
AppGetResponse(c) ==
    \* the application starts a get_response task on a connection it was handed
    /\ c \in obs.registered
    /\ task.resp[c].pc = "idle"
    /\ app.calls < MaxAppCalls
    /\ app' = [app EXCEPT !.calls = @ + 1]
    /\ task' = [task EXCEPT !.resp[c].pc = "send"]
    /\ UNCHANGED <<lt, server, conn, heap, net, gm, obs>>

AppSendMessage(c, texts) ==
    \* the application calls send_message on a connection it was handed
    /\ c \in obs.registered
    /\ app.calls < MaxAppCalls
    /\ app' = [app EXCEPT !.calls = @ + 1]
    /\ \E ok \in WriteOk(c), text \in texts :
        LET written == ~IsClosed(World, c) /\ ok
        IN  SetWorld([SendMessage(World, c, text, ok, heap) EXCEPT
                !.obs.untold = IF written /\ ~Begins(PrefixMessage(text, FALSE), "N: ")
                               THEN @ \cup {c} ELSE @])
    /\ UNCHANGED <<lt, heap, net, task, gm>>

AppDrainQueues ==
    \* the application takes the events
    /\ server.connection_queue \o server.disconnection_queue # <<>>
    /\ server' = [server EXCEPT !.connection_queue = <<>>, !.disconnection_queue = <<>>]
    /\ UNCHANGED <<lt, conn, heap, net, task, app, gm, obs>>

Firsts == {Hello, GetLine, Junk, Quit}
HelloFirsts == {Hello, Quit}

InitReg ==
    /\ server = ServerInit
    /\ conn = ConnInit
    /\ heap = [c \in Conns |-> EmptyDict]
    /\ net = [c \in Conns |-> "none"]
    /\ task = TaskInit
    /\ app = [calls |-> 0]
    /\ obs = ObsInit

QueueRoom ==
    \* the application takes the events before more than MaxPending are waiting
    Len(server.connection_queue) + Len(server.disconnection_queue) <= MaxPending

RegAccept(c) == QueueRoom /\ Accept(c)
RegHandleFirst(c) == QueueRoom /\ HandleFirst(c, Incoming(c, HelloFirsts), WriteOk(c))
RegHandleName(c) == QueueRoom /\ HandleName(c, Incoming(c, NameRequests \cup {Quit}), WriteOk(c))
RegPingConnection(c) == QueueRoom /\ PingConnection(c, WriteOk(c))
RegRespSend(c) == QueueRoom /\ RespSend(c, <<"prompt">>, WriteOk(c))
RegRespRead(c) ==
    QueueRoom /\ RespRead(c, Incoming(c, {Reply(c), Quit}), WriteOk(c), {FALSE})
RegIncrementAttribute(c) == QueueRoom /\ CallIncrementAttribute(c, {"wins"})
RegGetResponse(c) == QueueRoom /\ AppGetResponse(c)
RegSendMessage(c) == QueueRoom /\ AppSendMessage(c, {<<"text">>})

NextReg ==
    \/ AppDrainQueues
    \/ \E c \in Conns :
        \/ RegAccept(c)
        \/ RegHandleFirst(c)
        \/ RegHandleName(c)
        \/ RegPingConnection(c)
        \/ RegRespSend(c)
        \/ RegRespRead(c)
        \/ RegIncrementAttribute(c)
        \/ RegGetResponse(c)
        \/ RegSendMessage(c)

(***************************************************************************)
(* Claims on the registry (SpecReg).                                       *)
(***************************************************************************)
\* C1: name uniqueness. In every reachable state no two connections of the
\* live set hold the same name (so a handshake asking for a name that a
\* live connection holds was rejected).
C1_NameUnique ==
    \A i, j \in DOMAIN server.connections :
        i # j => conn[server.connections[i]].name # conn[server.connections[j]].name

\* C2: every registered connection is appended to the disconnect-event
\* queue at most once over its lifetime, whatever tears it down.
C2_OneDisconnectEvent == \A c \in obs.registered : obs.enq[c] <= 1

\* C8: attribute memory. The map a live connection had when it was closed
\* (obs.saved, by name) stays saved under its name until the next
\* connection registers that name, and that connection starts with exactly
\* those counters (obs.start against obs.expect).
C8_AttributeMemory ==
    /\ \A c \in obs.registered : obs.start[c] = obs.expect[c]
    /\ \A n \in DOMAIN obs.saved :
        /\ n \in DOMAIN server.old_attributes
        /\ heap[server.old_attributes[n]] = obs.saved[n]

Live == SeqToSet(server.connections)

HeldByLive(name) == \E d \in Live : conn[d].name = name

Acceptable(name) ==
    /\ name # <<>>
    /\ Len(name) >= MinNameLen
    /\ Len(name) <= MaxNameLen
    /\ ~HeldByLive(name)

Candidates == NameRequests \cup {FullRaw, <<>>, <<" ">>, <<"a", " ", "b">>}

\* C12: handshake acceptance. In every reachable state a name request is
\* accepted if and only if its normalized form is non-empty, has 2 to 10
\* characters and is not held by a live connection; every live connection
\* has a name of 2 to 10 letters, digits and underscores; "!!!" is rejected
\* and "!a!" is accepted as "_a_" when that name is free.  A connection
\* enters the live set or the connect-event queue only in the turn of its
\* own handshake that accepted its request, under a name no live connection
\* held; a rejected request registers nothing.
C12_HandshakeAcceptance ==
    /\ [](/\ \A raw \in Candidates :
                (Rejection(World, Normalize(raw)) = <<>>) <=> Acceptable(Normalize(raw))
          /\ \A c \in Live :
                /\ Len(conn[c].name) >= MinNameLen
                /\ Len(conn[c].name) <= MaxNameLen
                /\ \A i \in DOMAIN conn[c].name : conn[c].name[i] \in AlNum \cup {"_"}
          /\ Rejection(World, Normalize(<<"!", "!", "!">>)) # <<>>
          /\ Normalize(<<"!", "a", "!">>) = <<"_", "a", "_">>)
    /\ [][\A c \in Conns :
            (\/ c \in SeqToSet(server'.connections) \ Live
             \/ c \in SeqToSet(server'.connection_queue) \ SeqToSet(server.connection_queue))
            => /\ task.h[c] = "name_read" /\ task'.h[c] = "done"
               /\ Acceptable(conn'[c].name)
               /\ c \in SeqToSet(server'.connections)
               /\ conn'[c].name \in DOMAIN server'.names
               /\ server'.names[conn'[c].name] = c]_vars

\* C19: close_connection is idempotent on the registry. A call on a
\* connection that was closed before leaves the live set, the name index and
\* the other connections as they are, also when another connection has
\* registered the same name in between.
C19_CloseIdempotent ==
    [][\A c \in Conns :
        (obs.enq[c] >= 1 /\ obs'.enq[c] > obs.enq[c]) =>
            /\ server'.connections = server.connections
            /\ server'.names = server.names
            /\ \A d \in Conns \ {c} : conn'[d] = conn[d]]_vars

\* C20: registry consistency. In every reachable state each live connection
\* is the value stored under its own name, each entry of the name index
\* points to a live connection, and a connection that has not completed its
\* handshake is in neither the live set, the name index nor the
\* connect-event queue.
C20_RegistryConsistent ==
    /\ \A c \in Live :
        conn[c].name \in DOMAIN server.names /\ server.names[conn[c].name] = c
    /\ \A n \in DOMAIN server.names : server.names[n] \in Live
    /\ \A c \in Conns \ obs.registered :
        /\ c \notin Live
        /\ c \notin {server.names[n] : n \in DOMAIN server.names}
        /\ c \notin SeqToSet(server.connection_queue)

(***************************************************************************)
(* game_manager.py: the orchestrator.  The game is RockPaperScissorsGame   *)
(* for its name and its three parameters; what its hooks do is open: a     *)
(* hook enqueues frames, may yield a prompt or none, may raise.            *)
(* A step of the orchestrator is the return of the hook it is waiting in   *)
(* followed by its code up to the next hook call, sleep or wait: the       *)
(* other tasks run between two steps.                                      *)
(* G = [server, task, gm, obs] is the state these operators change.        *)
(***************************************************************************)
GameName == <<"Rock Paper Scissors">>
MinConnections == 2
MaxConnections == 2
GameStartCooldown == 1

Placeholders == <<"@p0!", "@p1!", "@p2!", "@p3!">>
VisualizerData == <<"data">>
HookFrames == {<<>>, <<<<"@p0!", " moved">>>>}

GmInit == [pc |-> "poll", error |-> "", game |-> 1, game_name |-> GameName,
           players |-> <<>>, start_cooldown |-> 0, round |-> 0,
           game_frame_queue |-> <<>>, visualize_queue |-> <<>>, sink |-> "running",
           index |-> 0, response_tasks |-> {}, response_indicies |-> <<>>,
           responses |-> <<>>, responded |-> 0, expected |-> 0,
           done |-> {}, player_outputs |-> <<>>]

GmOff == [GmInit EXCEPT !.pc = "off"]

RECURSIVE JoinNames(_)
JoinNames(cs) ==
    \* " ".join(c.name for c in cs)
    IF cs = <<>> THEN <<>>
    ELSE IF Len(cs) = 1 THEN conn[Head(cs)].name
    ELSE conn[Head(cs)].name \o <<" ">> \o JoinNames(Tail(cs))

RECURSIVE Substitute(_, _)
Substitute(data, players) ==
    \* data.replace("@p%d!" % index, conn.name) for every player
    IF data = <<>> THEN <<>>
    ELSE LET hit == {i \in DOMAIN players : Placeholders[i] = Head(data)}
         IN  (IF hit = {} THEN <<Head(data)>> ELSE conn[players[CHOOSE i \in hit : TRUE]].name)
             \o Substitute(Tail(data), players)

Visualize(g, data, keyframe) ==
    [g EXCEPT !.visualize_queue =
        Append(@, <<IF keyframe THEN "KEYFRAME " ELSE "FRAME ">> \o Substitute(data, g.players))]

RECURSIVE HandleGameFrameQueue(_)
HandleGameFrameQueue(g) ==
    IF g.game_frame_queue = <<>> THEN g
    ELSE HandleGameFrameQueue(
            Visualize([g EXCEPT !.game_frame_queue = Tail(@)], Head(g.game_frame_queue), FALSE))

VisualizeRoundMutNoFlush(g) == Visualize(g, VisualizerData, TRUE)

VisualizeRound(g) == Visualize(HandleGameFrameQueue(g), VisualizerData, TRUE)

HookReturns(g, frames) ==
    \* what a hook of the game left in the game frame queue
    [g EXCEPT !.game_frame_queue = @ \o frames]

RosterClosed(g) == \E i \in DOMAIN g.players : conn[g.players[i]].closing

ResetStartCooldownMutKeep(g) == g

ResetStartCooldown(g) ==
    \* reset_start_cooldown
    [g EXCEPT !.start_cooldown = GameStartCooldown]

HandleConnectionQueuesMutAnyone(G) ==
    LET g == G.gm
        cq == G.server.connection_queue
        dq == G.server.disconnection_queue
        hits == {i \in DOMAIN dq : g.game # 0}
        first == IF hits = {} THEN Len(dq) ELSE CHOOSE i \in hits : \A j \in hits : i <= j
    IN  [G |-> [G EXCEPT
                    !.server.connection_queue = <<>>,
                    !.server.disconnection_queue = SubSeq(dq, first + 1, Len(dq)),
                    !.gm.start_cooldown = IF cq \o dq # <<>> THEN GameStartCooldown ELSE @,
                    !.obs.abortedBy = IF hits # {} THEN dq[first] ELSE @],
         raised |-> hits # {}]

HandleConnectionQueues(G) ==
    \* [G, raised]: PlayerDisconnectedError leaves the later events in the queue
    LET g == G.gm
        cq == G.server.connection_queue
        dq == G.server.disconnection_queue
        hits == {i \in DOMAIN dq : g.game # 0 /\ dq[i] \in SeqToSet(g.players)}
        first == IF hits = {} THEN Len(dq) ELSE CHOOSE i \in hits : \A j \in hits : i <= j
    IN  [G |-> [G EXCEPT
                    !.server.connection_queue = <<>>,
                    !.server.disconnection_queue = SubSeq(dq, first + 1, Len(dq)),
                    !.gm = IF cq \o dq # <<>> THEN ResetStartCooldown(@) ELSE @,
                    !.obs.countdown = IF cq \o dq # <<>> THEN <<>> ELSE @,
                    !.obs.abortedBy = IF hits # {} THEN dq[first] ELSE @,
                    !.obs.outsiders = IF hits = {} /\ G.obs.inSession /\ cq \o dq # <<>>
                                      THEN Min(@ + 1, MaxCount) ELSE @],
         raised |-> hits # {}]

Die(G, error) ==
    \* an exception that play_game and game_loop do not catch: the task ends
    [G EXCEPT !.gm.pc = "dead", !.gm.error = error,
              !.obs.diedAfterClose = G.obs.inSession /\ RosterClosed(G.gm)]

Injective(f) == \A i, j \in DOMAIN f : i # j => f[i] # f[j]

RostersMutEveryone(active) ==
    {r \in [1..Len(active) -> SeqToSet(active)] : Injective(r)}

Rosters(active) ==
    \* random.sample(active, max) when there are too many, random.shuffle otherwise
    LET n == IF MaxConnections > 0 /\ Len(active) > MaxConnections
             THEN MaxConnections ELSE Len(active)
    IN  {r \in [1..n -> SeqToSet(active)] : Injective(r)}

CallSetupGame(G, roster) ==
    \* wait_for_connections returned roster: game_loop binds it, play_game starts
    [G EXCEPT !.gm.players = roster, !.gm.pc = "setup",
              !.obs.started = @ + 1, !.obs.inSession = TRUE, !.obs.roster = roster,
              !.obs.cause = "", !.obs.abortedBy = 0, !.obs.gameOverCalls = 0,
              !.obs.outsiders = 0, !.obs.lateFanout = FALSE, !.obs.diedAfterClose = FALSE,
              !.obs.completed = <<>>, !.obs.onOut = <<>>, !.obs.handled = <<>>]

Poll(G, roster) ==
    \* one turn of wait_for_connections' loop, and on to setup_game when it returns
    LET h == HandleConnectionQueues(G)
        H == h.G
        active == H.server.connections
    IN  IF h.raised THEN Die(H, "PlayerDisconnectedError")
        ELSE IF Len(active) < MinConnections THEN
            [H EXCEPT !.gm = [Visualize(ResetStartCooldown(H.gm),
                                        <<"WAITING ", ToString(MinConnections)>>, FALSE)
                                EXCEPT !.pc = "poll"],
                      !.obs.countdown = <<>>]
        ELSE IF H.gm.start_cooldown > 0 THEN
            [H EXCEPT !.gm = [Visualize(H.gm, <<"START_IN ", ToString(H.gm.start_cooldown)>>,
                                        FALSE)
                                EXCEPT !.start_cooldown = @ - 1, !.pc = "poll"],
                      !.obs.countdown = Append(@, H.gm.start_cooldown)]
        ELSE
            CallSetupGame(
                [H EXCEPT !.gm = ResetStartCooldown(
                                    Visualize(H.gm, <<"STARTING ">> \o JoinNames(active), FALSE))],
                roster)

Ending(G, cause) ==
    \* play_game after its two except clauses, up to the call of on_game_over
    LET g == VisualizeRound(G.gm)
    IN  [G EXCEPT !.gm = [g EXCEPT !.pc = "game_over"],
                  !.obs.cause = cause,
                  !.obs.gameOverCalls = @ + 1,
                  !.obs.snapshotFirst = @ /\ g.game_frame_queue = <<>>
                                          /\ Head(Last(g.visualize_queue)) = "KEYFRAME "]

GetPlayerOutputs(G) ==
    \* get_player_outputs up to its first get_player_input
    [G EXCEPT !.gm.response_tasks = {}, !.gm.response_indicies = <<>>,
              !.gm.responses = <<>>, !.gm.done = {}, !.gm.player_outputs = <<>>,
              !.gm.index = 0, !.gm.pc = "input",
              !.obs.lateFanout = RosterClosed(G.gm),
              !.obs.completed = <<>>, !.obs.onOut = <<>>, !.obs.handled = <<>>]

PlayerIndex(g, c) == (CHOOSE i \in DOMAIN g.players : g.players[i] = c) - 1

StoreResponseMutByArrival(responses, index, responded, result) ==
    [responses EXCEPT ![responded] = result]

StoreResponse(responses, index, responded, result) ==
    \* responses[index] = result
    [responses EXCEPT ![index + 1] = result]

TakeResponse(G, c) ==
    \* the body of "for response in done", up to the call of on_player_output
    LET g == G.gm
        index == PlayerIndex(g, c)
        result == G.task.resp[c].result
    IN  IF index + 1 > Len(g.responses)
        THEN Die([G EXCEPT !.gm.responded = @ + 1, !.gm.done = @ \ {c}], "IndexError")
        ELSE [G EXCEPT !.gm.responded = @ + 1,
                       !.gm.done = @ \ {c},
                       !.gm.index = index,
                       !.gm.responses = StoreResponse(@, index, g.responded + 1, result),
                       !.gm.pc = "on_output",
                       \* the task object of a task that is done is dropped
                       !.task.resp[c] = IF @.pc = "done" THEN [pc |-> "idle", result |-> None]
                                        ELSE @,
                       !.obs.onOut = Append(@, c)]

Zip(a, b) == [i \in 1..Min(Len(a), Len(b)) |-> <<a[i], b[i]>>]

CallHandlePlayerOutput(G) ==
    \* the next turn of "for index, output in player_outputs"
    [G EXCEPT !.gm.index = Head(G.gm.player_outputs)[1],
              !.gm.player_outputs = Tail(@),
              !.gm.pc = "handle",
              !.obs.handled = Append(@, Head(G.gm.player_outputs))]

FanoutEndMutSkipHandle(G) ==
    IF HandleConnectionQueues(G).raised
    THEN Ending(HandleConnectionQueues(G).G, "PlayerDisconnectedError")
    ELSE [HandleConnectionQueues(G).G EXCEPT !.gm.pc = "update"]

FanoutEnd(G) ==
    \* get_player_outputs after its while loop, and play_game up to the next hook
    IF G.gm.responded # G.gm.expected THEN Die(G, "RuntimeError")
    ELSE LET h == HandleConnectionQueues(G)
             outputs == Zip(G.gm.response_indicies, G.gm.responses)
         IN  IF h.raised THEN Ending(h.G, "PlayerDisconnectedError")
             ELSE IF outputs = <<>> THEN [h.G EXCEPT !.gm.pc = "update"]
             ELSE CallHandlePlayerOutput([h.G EXCEPT !.gm.player_outputs = outputs])

PlayGameEndMutNoFlush(g) == g

PlayGameEnd(g) ==
    \* play_game's last line
    HandleGameFrameQueue(g)

NewGame(G) ==
    \* game_loop after play_game returned, up to the next wait_for_connections
    LET g == [G.gm EXCEPT !.game = 0, !.players = <<>>,
                          \* the locals of play_game and get_player_outputs are gone
                          !.round = 0, !.index = 0, !.response_indicies = <<>>,
                          !.responses = <<>>, !.responded = 0, !.expected = 0]
        H == [G EXCEPT !.gm = g, !.obs.inSession = FALSE, !.obs.ended = @ + 1,
                       !.obs.causes = @ \cup {G.obs.cause},
                       !.obs.roster = <<>>, !.obs.cause = "", !.obs.abortedBy = 0,
                       !.obs.gameOverCalls = 0, !.obs.outsiders = 0,
                       !.obs.lateFanout = FALSE, !.obs.countdown = <<>>,
                       !.obs.completed = <<>>, !.obs.onOut = <<>>, !.obs.handled = <<>>]
    IN  IF g.game_frame_queue # <<>> THEN Die(H, "RuntimeError: frame queue")
        ELSE IF g.game_name # GameName THEN Die(H, "RuntimeError: name")
        ELSE [H EXCEPT !.gm.game = G.obs.constructed + 1, !.obs.constructed = @ + 1]

NoPlayerInputsMutSwallowed(G) == Ending(G, "RuntimeError: no inputs")

NoPlayerInputs(G) ==
    \* raise RuntimeError("No player inputs were returned"): no except clause of
    \* play_game or game_loop takes it
    Die(G, "RuntimeError: no inputs")

Orchestra == [server |-> server, task |-> task, gm |-> gm, obs |-> obs]

SetOrchestra(G) ==
    /\ server' = G.server
    /\ task' = G.task
    /\ gm' = G.gm
    /\ obs' = G.obs
    /\ UNCHANGED <<lt, conn, heap, net, app>>

SinkRoom ==
    \* the frame sink keeps up: at most MaxQueue frames are waiting for it
    Len(gm.visualize_queue) <= MaxQueue

StartsWithin(G) ==
    \* a further session starts only within the bound
    G.gm.pc = "setup" => obs.started < MaxSessions

GmPoll ==
    \* game_loop starts, or the sleep of wait_for_connections ends
    /\ gm.pc = "poll"
    /\ SinkRoom
    /\ \E roster \in Rosters(server.connections) :
        LET G == Poll(Orchestra, roster)
        IN  StartsWithin(G) /\ SetOrchestra(G)

GmSetupGame ==
    \* setup_game returns or raises
    /\ gm.pc = "setup"
    /\ SinkRoom
    /\ \E outcome \in {"ok", "RuntimeError"}, frames \in HookFrames :
        LET g == HookReturns(gm, frames)
            G == [Orchestra EXCEPT !.gm = g]
        IN  IF outcome = "RuntimeError" THEN SetOrchestra(Die(G, "RuntimeError"))
            ELSE SetOrchestra([G EXCEPT !.gm = [HandleGameFrameQueue(g)
                                                EXCEPT !.round = 0, !.pc = "prepare"]])

GmPrepareRound ==
    /\ gm.pc = "prepare"
    /\ SinkRoom
    /\ \E frames \in HookFrames :
        SetOrchestra(GetPlayerOutputs(
            [Orchestra EXCEPT !.gm = HandleGameFrameQueue(HookReturns(gm, frames))]))

GmGetPlayerInput ==
    \* get_player_input returns a prompt or nothing; the loop goes on or ends
    /\ gm.pc = "input"
    /\ SinkRoom
    /\ \E prompted \in BOOLEAN, frames \in HookFrames :
        LET c == gm.players[gm.index + 1]
            g0 == HandleGameFrameQueue(HookReturns(gm, frames))
            g1 == IF prompted
                  THEN [g0 EXCEPT !.response_tasks = @ \cup {c},
                                  !.response_indicies = Append(@, gm.index)]
                  ELSE g0
            G1 == [Orchestra EXCEPT
                        !.gm = [g1 EXCEPT !.index = @ + 1],
                        !.task.resp[c] = IF prompted THEN [pc |-> "send", result |-> None]
                                         ELSE @,
                        !.obs.overlapped = IF prompted /\ task.resp[c].pc # "idle"
                                           THEN @ \cup {c} ELSE @]
            n == Cardinality(g1.response_tasks)
        IN  IF gm.index + 1 < Len(gm.players) THEN SetOrchestra(G1)
            ELSE IF g1.response_tasks = {}
                 THEN SetOrchestra(NoPlayerInputs(G1))
            ELSE SetOrchestra([G1 EXCEPT !.gm.responses = [i \in 1..n |-> None],
                                         !.gm.responded = 0, !.gm.expected = n,
                                         !.gm.pc = "wait"])

SettledMutPending == gm.response_tasks

Settled == {c \in gm.response_tasks : task.resp[c].pc = "done"}

GmWait ==
    \* asyncio.wait returns the tasks that are done, a set taken in any order
    /\ gm.pc = "wait"
    /\ SinkRoom
    /\ Settled # {}
    /\ \E c \in Settled :
        SetOrchestra(TakeResponse([Orchestra EXCEPT !.gm.done = Settled,
                                                    !.gm.response_tasks = @ \ Settled], c))

GmOnPlayerOutput ==
    \* on_player_output returns: the next task of done, the next wait, or the end
    /\ gm.pc = "on_output"
    /\ SinkRoom
    /\ \E frames \in HookFrames :
        LET G == [Orchestra EXCEPT !.gm = HandleGameFrameQueue(HookReturns(gm, frames))]
        IN  IF gm.done # {} THEN \E c \in gm.done : SetOrchestra(TakeResponse(G, c))
            ELSE IF gm.response_tasks # {} THEN SetOrchestra([G EXCEPT !.gm.pc = "wait"])
            ELSE SetOrchestra(FanoutEnd(G))

GmHandlePlayerOutput ==
    /\ gm.pc = "handle"
    /\ SinkRoom
    /\ \E frames \in HookFrames :
        LET G == [Orchestra EXCEPT !.gm = HandleGameFrameQueue(HookReturns(gm, frames))]
        IN  IF gm.player_outputs # <<>> THEN SetOrchestra(CallHandlePlayerOutput(G))
            ELSE SetOrchestra([G EXCEPT !.gm.pc = "update"])

GmUpdateGame ==
    \* update_game returns, ends the game, or fails
    /\ gm.pc = "update"
    /\ SinkRoom
    /\ \E outcome \in {"ok", "GameOverError", "RuntimeError"}, frames \in HookFrames :
        LET G == [Orchestra EXCEPT !.gm = HookReturns(gm, frames)]
        IN  IF outcome = "RuntimeError" THEN SetOrchestra(Die(G, "RuntimeError"))
            ELSE IF outcome = "GameOverError" THEN SetOrchestra(Ending(G, "GameOverError"))
            ELSE /\ gm.round + 1 < MaxRounds
                 /\ SetOrchestra([G EXCEPT !.gm = [VisualizeRound(G.gm)
                                                    EXCEPT !.round = @ + 1, !.pc = "prepare"]])

GmOnGameOver ==
    \* on_game_over returns: the session ends, a new game is made, waiting resumes
    /\ gm.pc = "game_over"
    /\ SinkRoom
    /\ \E frames \in HookFrames :
        LET G == NewGame([Orchestra EXCEPT !.gm = PlayGameEnd(HookReturns(gm, frames))])
        IN  IF G.gm.pc = "dead" THEN SetOrchestra(G)
            ELSE \E roster \in Rosters(server.connections) :
                    LET P == Poll([G EXCEPT !.gm.pc = "poll"], roster)
                    IN  StartsWithin(P) /\ SetOrchestra(P)

VisualizerLoop ==
    \* visualizer_loop takes the next frame of the queue
    /\ gm.sink = "running"
    /\ gm.visualize_queue # <<>>
    /\ gm' = [gm EXCEPT !.visualize_queue = Tail(@),
                        !.sink = IF Head(Head(gm.visualize_queue)) \in {"KEYFRAME ", "FRAME "}
                                 THEN @ ELSE "dead"]
    \* delay = await self.visualizer.visualize(data, keyframe)
    /\ obs' = [obs EXCEPT !.shown = IF Head(Head(gm.visualize_queue)) \in {"KEYFRAME ", "FRAME "}
                                    THEN Head(gm.visualize_queue) ELSE @]
    /\ UNCHANGED <<lt, server, conn, heap, net, task, app>>

PeerName(c) == <<<<"b", "o">>, <<"a", "b">>, <<"a", "1">>, <<"o", "1">>>>[c]

MayLeave(c) ==
    \* at most MaxClosed peers leave
    Cardinality({d \in Conns : conn[d].closing}) < MaxClosed

PeerOks(c) == IF MayLeave(c) THEN WriteOk(c) ELSE {TRUE}

PeerLines(c, lines) ==
    IF conn[c].closing THEN {None}
    ELSE IF MayLeave(c) THEN lines \cup {Quit, None}
    ELSE lines

InitGame == lt = LtIdle /\ InitReg /\ gm = GmInit

Next ==
    \/ GmPoll
    \/ GmSetupGame
    \/ GmPrepareRound
    \/ GmGetPlayerInput
    \/ GmWait
    \/ GmOnPlayerOutput
    \/ GmHandlePlayerOutput
    \/ GmUpdateGame
    \/ GmOnGameOver
    \/ VisualizerLoop
    \/ \E c \in Conns :
        \/ Accept(c)
        \/ HandleFirst(c, {Hello}, {TRUE})
        \/ HandleName(c, {PeerName(c)}, {TRUE})
        \/ PingConnection(c, PeerOks(c))
        \/ RespSend(c, <<"prompt">>, PeerOks(c))
        \/ RespRead(c, PeerLines(c, {Reply(c)}), PeerOks(c), {FALSE})

Spec == InitGame /\ [][Next]_vars

(***************************************************************************)
(* Claims on the orchestrator (Spec).                                      *)
(***************************************************************************)
Roster == SeqToSet(gm.players)

FanoutDone == obs.inSession /\ gm.pc \in {"handle", "update"}

\* The round after a close: in a round whose fan-out began after a roster
\* member was closed, handle_player_output and update_game are not called.
NoRoundAfterClose == obs.lateFanout => gm.pc \notin {"handle", "update"}

\* C3: a participant disconnecting terminates the session. Once a roster
\* member has been closed while the game is bound, no round whose fan-out
\* began after the close calls handle_player_output or update_game, and the
\* session reaches Ending: the orchestrator never stops, with that member
\* closed, before Ending was reached.
C3_DisconnectEndsSession ==
    /\ NoRoundAfterClose
    /\ ~(gm.pc = "dead" /\ obs.diedAfterClose)

AllPrompted == Len(gm.response_indicies) = Len(gm.players)

OwnOutputs == [i \in 1..Len(gm.players) |-> <<i - 1, Reply(gm.players[i])>>]

\* C4: fan-out completeness. In a round where all N participants are
\* prompted and none disconnects, whatever the order in which the awaits
\* complete: N responses are collected, on_player_output is invoked once per
\* participant, each after its own await completed, and then
\* handle_player_output is invoked once per participant in ascending index
\* order, each call with the response of that participant's own connection.
C4_FanoutComplete ==
    /\ SeqToSet(obs.onOut) \subseteq SeqToSet(obs.completed)
    /\ (FanoutDone /\ AllPrompted /\ ~RosterClosed(gm)) =>
        /\ gm.responded = Len(gm.players)
        /\ Len(gm.responses) = Len(gm.players)
        /\ Len(obs.onOut) = Len(gm.players)
        /\ SeqToSet(obs.onOut) = Roster
        /\ IsPrefix(obs.handled, OwnOutputs)
        /\ gm.pc = "update" => obs.handled = OwnOutputs

\* C4 as stated: the same, and in such a round on_player_output is invoked
\* in the order in which the awaits completed.
C4_CompletionOrder ==
    /\ C4_FanoutComplete
    /\ (FanoutDone /\ AllPrompted /\ ~RosterClosed(gm)) => obs.onOut = obs.completed

C4_Witness ==
    /\ obs.inSession /\ gm.pc = "update" /\ AllPrompted /\ ~RosterClosed(gm)
    /\ Len(gm.players) = 2
    /\ obs.completed = <<gm.players[2], gm.players[1]>>
    /\ obs.handled = OwnOutputs

\* C5: on_game_over is invoked exactly once at the end of every session that
\* reached setup_game, whatever ended it (game over, disconnect, a fatal
\* error), after the pending frames and the final snapshot were emitted.
C5_GameOverOnce ==
    /\ obs.gameOverCalls <= 1
    /\ (obs.inSession /\ gm.pc = "game_over") => (obs.gameOverCalls = 1 /\ obs.snapshotFirst)
    /\ (obs.inSession /\ gm.pc = "dead") => obs.gameOverCalls = 1

\* C6: session recurrence. After N sessions that ended by a game over or by
\* a disconnect the orchestrator has not stopped: between sessions it is
\* waiting with no players, N + 1 games have been constructed, the current
\* one is the newest and has the same name, and the game frame queue is
\* empty; the checks at the construction never stop the orchestrator.
C6_SessionRecurrence ==
    /\ obs.causes \subseteq {"GameOverError", "PlayerDisconnectedError"}
    /\ gm.error \notin {"RuntimeError: frame queue", "RuntimeError: name"}
    /\ gm.game_name = GameName
    /\ obs.inSession => obs.constructed = obs.ended + 1
    /\ ~obs.inSession =>
        /\ gm.pc = "poll"
        /\ gm.players = <<>>
        /\ obs.constructed = obs.ended + 1
        /\ gm.game = obs.constructed
        /\ gm.game_frame_queue = <<>>

C6_Witness ==
    /\ ~obs.inSession
    /\ obs.ended = 2
    /\ obs.causes = {"GameOverError", "PlayerDisconnectedError"}

Events == SeqToSet(server.connection_queue) \cup SeqToSet(server.disconnection_queue)

FanoutEnds == obs.inSession /\ gm.pc = "on_output" /\ gm'.pc \in {"handle", "update", "game_over"}

\* C7: the roster is fixed for the session and outsiders cannot disturb it.
\* From the hand-over to the end of Ending the player list is the roster
\* handed over; a session is aborted only by the event of a roster member;
\* and when the events handled at the end of a fan-out all come from
\* connections outside the roster, the session goes on with the same
\* players and round, nothing changing but the countdown, which is reset.
C7_RosterFixed ==
    [][ /\ obs'.inSession => gm'.players = obs'.roster
        /\ (obs.inSession /\ obs'.inSession /\ obs'.started = obs.started)
                => gm'.players = gm.players
        /\ (FanoutEnds /\ gm'.pc = "game_over")
                => obs'.abortedBy \in Roster
        /\ (FanoutEnds /\ Events \cap Roster = {}) =>
            /\ gm'.pc \in {"handle", "update"}
            /\ gm'.players = gm.players
            /\ gm'.round = gm.round
            /\ gm'.start_cooldown = IF Events # {} THEN GameStartCooldown
                                    ELSE gm.start_cooldown
            /\ server'.connections = server.connections
            /\ conn' = conn
      ]_vars

C7_Witness ==
    /\ obs.inSession /\ gm.pc = "handle"
    /\ obs.outsiders > 0
    /\ server.disconnection_queue = <<>>
    /\ \E c \in obs.registered \ Roster : conn[c].closing

Prompted == {gm.players[i + 1] : i \in SeqToSet(gm.response_indicies)}

PromptedOutputs ==
    [j \in DOMAIN gm.response_indicies |->
        <<gm.response_indicies[j], Reply(gm.players[gm.response_indicies[j] + 1])>>]

\* C18: partial prompting. In a round where get_player_input yields a prompt
\* for a non-empty subset S of the participants, whatever S is: exactly the
\* members of S get a response task, the fan-out ends without an error, and
\* when no participant disconnects on_player_output was invoked once for each
\* member of S and handle_player_output is invoked once for each member of S,
\* in ascending index order, with the response of that member's connection.
C18_PartialPrompting ==
    /\ gm.error # "IndexError"
    /\ (obs.inSession /\ gm.pc = "wait" /\ gm.responded = 0) =>
            \A c \in Roster : (task.resp[c].pc # "idle") <=> (c \in Prompted)
    /\ (FanoutDone /\ ~RosterClosed(gm)) =>
        /\ gm.responded = Len(gm.response_indicies)
        /\ Len(obs.onOut) = Len(gm.response_indicies)
        /\ SeqToSet(obs.onOut) = Prompted
        /\ IsPrefix(obs.handled, PromptedOutputs)
        /\ gm.pc = "update" => obs.handled = PromptedOutputs

StartsSession == obs'.started = obs.started + 1

Emitted == IF IsPrefix(gm.visualize_queue, gm'.visualize_queue)
           THEN SubSeq(gm'.visualize_queue, Len(gm.visualize_queue) + 1,
                       Len(gm'.visualize_queue))
           ELSE <<>>

IsStarting(frame) == Len(frame) >= 2 /\ frame[2] = "STARTING "

RosterSize == IF MaxConnections > 0 /\ Len(server.connections) > MaxConnections
              THEN MaxConnections ELSE Len(server.connections)

\* C13: roster selection. A session starts only in a poll of the waiting
\* loop, with at least min_connections live connections, the countdown at 0
\* and no event pending; the roster handed over has no duplicates, holds only
\* live connections, has max_connections members when the live count exceeds
\* a positive max_connections and is the whole live set otherwise; in that
\* step exactly one frame is emitted, the STARTING frame naming the live
\* connections, and setup_game is called next; no other step emits a
\* STARTING frame.
C13_RosterSelection ==
    [][ /\ StartsSession =>
            /\ gm.pc = "poll" /\ gm'.pc = "setup"
            /\ Len(server.connections) >= MinConnections
            /\ gm.start_cooldown = 0 /\ Events = {}
            /\ Injective(gm'.players)
            /\ SeqToSet(gm'.players) \subseteq Live
            /\ server'.connections = server.connections
            /\ Len(gm'.players) = RosterSize
            /\ RosterSize = Len(server.connections) => SeqToSet(gm'.players) = Live
            /\ Emitted = << <<"FRAME ", "STARTING ">> \o JoinNames(server.connections) >>
            /\ \A c \in SeqToSet(gm'.players) :
                    Contains(Emitted[1], conn[c].name)
        /\ ~StartsSession => \A i \in DOMAIN Emitted : ~IsStarting(Emitted[i])
      ]_vars

C13_Witness ==
    /\ gm.pc = "setup"
    /\ Len(server.connections) = MaxConnections + 1
    /\ Len(gm.players) = MaxConnections
    /\ Len(gm.visualize_queue) = 1
    /\ IsStarting(gm.visualize_queue[1])

PollFrame == Last(Emitted)

AfterEvents == IF Events # {} THEN GameStartCooldown ELSE gm.start_cooldown

Polls ==
    \/ gm.pc = "poll" /\ gm.visualize_queue = <<>> /\ gm'.visualize_queue # <<>>
    \/ gm.pc = "game_over" /\ gm'.pc \in {"poll", "setup"}

CountedDown == [i \in 1..GameStartCooldown |-> GameStartCooldown - i + 1]

\* C21: countdown discipline in Waiting. The countdown stays between 0 and
\* start_cooldown(). Every poll takes all the pending events and emits one
\* frame: with fewer than min_connections live connections a WAITING frame,
\* and the countdown is reset to start_cooldown(); otherwise, when the
\* countdown (reset to start_cooldown() if an event was taken) is above 0, a
\* START_IN frame with its value, and it is decremented by 1; otherwise the
\* STARTING frame.  When the STARTING frame is emitted the countdown frames
\* since the last reset are exactly start_cooldown(), ..., 1, one per poll.
C21_CountdownDiscipline ==
    /\ [](gm.start_cooldown \in 0..GameStartCooldown)
    /\ [][Polls =>
            /\ gm.pc = "poll" => Len(Emitted) = 1
            /\ server'.connection_queue = <<>> /\ server'.disconnection_queue = <<>>
            /\ Len(server.connections) < MinConnections =>
                /\ PollFrame = <<"FRAME ", "WAITING ", ToString(MinConnections)>>
                /\ gm'.start_cooldown = GameStartCooldown
                /\ gm'.pc = "poll" /\ obs'.countdown = <<>>
            /\ (Len(server.connections) >= MinConnections /\ AfterEvents > 0) =>
                /\ PollFrame = <<"FRAME ", "START_IN ", ToString(AfterEvents)>>
                /\ gm'.start_cooldown = AfterEvents - 1
                /\ gm'.pc = "poll"
                /\ obs'.countdown = Append(IF Events # {} \/ gm.pc = "game_over" THEN <<>>
                                           ELSE obs.countdown, AfterEvents)
            /\ (Len(server.connections) >= MinConnections /\ AfterEvents = 0) =>
                /\ IsStarting(PollFrame)
                /\ StartsSession
                /\ gm'.start_cooldown = GameStartCooldown
                /\ obs.countdown = CountedDown /\ obs'.countdown = CountedDown
       ]_vars

C21_Witness ==
    /\ gm.pc = "setup"
    /\ obs.started = 2
    /\ obs.countdown = CountedDown
    /\ gm.start_cooldown = GameStartCooldown
    /\ Len(gm.visualize_queue) = 1 /\ IsStarting(gm.visualize_queue[1])

Calls(hook) ==
    \* the orchestrator calls the hook in this step: gm.pc is the hook it waits in
    gm'.pc = hook /\ (gm.pc # hook \/ gm'.index # gm.index)

HandledIndices == [j \in DOMAIN obs.handled |-> obs.handled[j][1]]

\* C22: hook order within a session. setup_game is called only in the step
\* that starts the session, with the roster bound. prepare_round is called
\* with round 0 after setup_game returned and with round r + 1 after
\* update_game(r) returned normally and the key frame of round r was
\* emitted; the round number changes in no other way during a session.
\* Within a round: get_player_input is called after prepare_round for the
\* indices 0, 1, ... in ascending order, all of them before the first wait;
\* on_player_output is called after that, for prompted players only;
\* handle_player_output is called only once on_player_output was called for
\* every prompted player, for the prompted indices in ascending order;
\* update_game is called only after the last handle_player_output.
C22_HookOrder ==
    [][ /\ Calls("setup") =>
            /\ gm.pc \in {"poll", "game_over"} /\ StartsSession
            /\ gm'.players = obs'.roster /\ gm'.players # <<>>
        /\ Calls("prepare") =>
            \/ gm.pc = "setup" /\ gm'.round = 0
            \/ /\ gm.pc = "update" /\ gm'.round = gm.round + 1
               /\ Emitted # <<>> /\ Last(Emitted) = <<"KEYFRAME ">> \o VisualizerData
        /\ (obs.inSession /\ obs'.inSession /\ gm'.round # gm.round) => Calls("prepare")
        /\ Calls("input") =>
            /\ gm'.round = gm.round
            /\ \/ gm.pc = "prepare" /\ gm'.index = 0
               \/ gm.pc = "input" /\ gm'.index = gm.index + 1
        /\ (gm.pc = "input" /\ gm'.pc \notin {"input"}) => gm.index + 1 = Len(gm.players)
        /\ (gm'.pc = "wait" /\ gm.pc # "wait") => gm.pc \in {"input", "on_output"}
        /\ Calls("on_output") =>
            /\ gm.pc \in {"wait", "on_output"}
            /\ gm'.round = gm.round
            /\ gm'.index \in SeqToSet(gm.response_indicies)
            /\ obs'.onOut = Append(obs.onOut, gm.players[gm'.index + 1])
        /\ Calls("handle") =>
            /\ gm.pc \in {"on_output", "handle"}
            /\ gm'.round = gm.round
            /\ SeqToSet(obs'.onOut) = Prompted
            /\ gm'.response_tasks = {} /\ gm'.done = {}
            /\ HandledIndices' = SubSeq(gm.response_indicies, 1, Len(obs'.handled))
            /\ Len(obs'.handled) = Len(obs.handled) + 1
            /\ gm.pc = "on_output" => obs.handled = <<>>
        /\ Calls("update") =>
            /\ gm.pc = "handle"
            /\ gm'.round = gm.round
            /\ HandledIndices = gm.response_indicies
            /\ obs'.handled = obs.handled
        /\ \A i \in 1..(Len(gm.response_indicies) - 1) :
                gm.response_indicies[i] < gm.response_indicies[i + 1]
      ]_vars

C22_Witness ==
    /\ obs.inSession /\ gm.pc = "update" /\ gm.round = 1
    /\ Len(gm.players) = 2
    /\ HandledIndices = <<0, 1>>
    /\ obs.onOut = <<gm.players[2], gm.players[1]>>

IsOwnFrame(frame) ==
    \* a frame of the orchestrator itself: a key frame or a lobby frame
    \/ Head(frame) = "KEYFRAME "
    \/ Len(frame) >= 2 /\ frame[2] \in {"WAITING ", "START_IN ", "STARTING "}

\* C23: frame order. When the orchestrator emits a frame of its own (a key
\* frame, the final snapshot, a lobby frame), every frame the game's hooks
\* have enqueued so far has been forwarded to the sink queue before it: the
\* game frame queue is empty and no hook frame follows an own frame among
\* the frames emitted together.  Emitting only appends to the sink queue.
\* The sink loop removes the oldest frame only, one at a time, and hands the
\* removed frame to the visualizer; nothing else removes or reorders frames.
C23_FrameOrder ==
    [][ /\ (\E i \in DOMAIN Emitted : IsOwnFrame(Emitted[i])) =>
                gm'.game_frame_queue = <<>>
        /\ \A i, j \in DOMAIN Emitted :
                (i < j /\ IsOwnFrame(Emitted[i])) => IsOwnFrame(Emitted[j])
        /\ \A i \in DOMAIN Emitted : Head(Emitted[i]) \in {"KEYFRAME ", "FRAME "}
        /\ gm'.visualize_queue # gm.visualize_queue =>
            \/ /\ IsPrefix(gm.visualize_queue, gm'.visualize_queue)
               /\ obs'.shown = obs.shown
            \/ /\ gm.visualize_queue # <<>>
               /\ gm'.visualize_queue = Tail(gm.visualize_queue)
               /\ obs'.shown = Head(gm.visualize_queue)
               /\ gm'.sink = "running"
        /\ obs'.shown # obs.shown => gm'.visualize_queue # gm.visualize_queue
      ]_vars

C23_Witness ==
    /\ obs.inSession /\ gm.pc = "prepare" /\ gm.round = 1
    /\ obs.shown # <<>> /\ ~IsOwnFrame(obs.shown)
    /\ gm.visualize_queue = << <<"KEYFRAME ">> \o VisualizerData >>

Reading(c) ==
    \* a readline is outstanding on c: the handshake's, or a get_response task's
    <<task.h[c] \in {"first_read", "browser_read", "name_read"},
      task.resp[c].pc \in {"read", "quit_drain"}>>

\* C27: no pipelining on a connection. At most one read is outstanding on a
\* connection; the handshake's reads are over when the connection is
\* registered, and get_response tasks run on registered connections only;
\* the orchestrator never creates a get_response task on a connection on
\* which an earlier one is not done, in a later round or a later session.
C27_NoPipelining ==
    /\ obs.overlapped = {}
    /\ \A c \in Conns :
        /\ ~(Reading(c)[1] /\ Reading(c)[2])
        /\ c \in obs.registered => ~Reading(c)[1]
        /\ task.resp[c].pc # "idle" => c \in obs.registered

C27_Witness ==
    \* a get_response task of a later round, or of a later session, is reading
    /\ gm.round > 0 \/ obs.ended > 0
    /\ \E c \in gm.response_tasks : Reading(c)[2] /\ task.h[c] = "done"

NoMessage == {i \in DOMAIN gm.responses : gm.responses[i] = None}

FanoutOver ==
    \* get_player_outputs leaves its while loop
    gm.pc = "on_output" /\ gm.done = {} /\ gm.response_tasks = {} /\ gm'.pc # "on_output"

\* C29: handle_player_output is never called with a None response. When a
\* get_response task of a round returned None, the disconnect event of that
\* player is in the queue when the fan-out ends, the session is aborted
\* there with PlayerDisconnectedError, and neither handle_player_output nor
\* update_game is called for that round.
C29_NoMessageAborts ==
    /\ [](/\ \A i \in DOMAIN obs.handled : obs.handled[i][2] # None
          /\ gm.pc \in {"handle", "update"} => NoMessage = {})
    /\ [][(FanoutOver /\ NoMessage # {}) =>
            /\ \A i \in NoMessage :
                    gm.players[i] \in SeqToSet(server.disconnection_queue)
            /\ gm'.pc = "game_over"
            /\ obs'.cause = "PlayerDisconnectedError"
            /\ obs'.handled = <<>>]_vars

C29_Witness ==
    \* the session was aborted at the end of a fan-out with a None response
    /\ gm.pc = "game_over"
    /\ obs.cause = "PlayerDisconnectedError"
    /\ NoMessage # {}
    /\ \E i \in DOMAIN gm.responses : gm.responses[i] # None

(***************************************************************************)
(* SpecHello: handle_connection for every kind of first line, a browser's  *)
(* request included, and the handshake that follows "HELLO".               *)
(***************************************************************************)
InitRegistry == lt = LtIdle /\ InitReg /\ gm = GmOff

HelloHandleFirst(c) == HandleFirst(c, Incoming(c, Firsts), WriteOk(c))
HelloHandleName(c) == HandleName(c, Incoming(c, NameRequests \cup {Quit}), WriteOk(c))
HelloPingConnection(c) == PingConnection(c, WriteOk(c))

NextHello ==
    \/ AppDrainQueues
    \/ \E c \in Conns :
        \/ Accept(c)
        \/ HelloHandleFirst(c)
        \/ HandleBrowser(c)
        \/ HelloHandleName(c)
        \/ HelloPingConnection(c)

SpecHello == InitRegistry /\ [][NextHello]_vars

\* C16: first-line routing. A connection whose first line is neither
\* "GET /..." nor "HELLO" is never registered (only connections that said
\* "HELLO" are), and once handle_connection has returned without
\* registering the connection the server has closed its transport.
C16_FirstLineRouting ==
    /\ \A c \in obs.registered : conn[c].type = "SOCKET"
    /\ \A c \in Conns : (task.h[c] = "done" /\ c \notin obs.registered) => conn[c].closing

\* C28: disconnect events are events of registered connections. A
\* connection that was appended to the disconnect-event queue was appended
\* to the connect-event queue before; one that closes before or during the
\* handshake produces no disconnect event.
C28_EventsOfRegistered ==
    \A c \in Conns : obs.enq[c] > 0 => c \in obs.registered

(***************************************************************************)
(* SpecClose: the teardown of registered connections.  The quit line of    *)
(* close_connection may have to wait in writer.drain() while the keepalive *)
(* task and the application go on.                                         *)
(***************************************************************************)
CloseHandleFirst(c) == QueueRoom /\ HandleFirst(c, Incoming(c, HelloFirsts), WriteOk(c))
CloseHandleName(c) == QueueRoom /\ HandleName(c, Incoming(c, {PeerName(c)}), WriteOk(c))
CloseRespRead(c) ==
    QueueRoom /\ RespRead(c, Incoming(c, {Reply(c), Quit}), WriteOk(c), BOOLEAN)
CloseRespCloseTail(c) == QueueRoom /\ RespCloseTail(c, WriteOk(c))

NextClose ==
    \/ AppDrainQueues
    \/ \E c \in Conns :
        \/ RegAccept(c)
        \/ CloseHandleFirst(c)
        \/ CloseHandleName(c)
        \/ RegPingConnection(c)
        \/ RegRespSend(c)
        \/ CloseRespRead(c)
        \/ CloseRespCloseTail(c)
        \/ RegGetResponse(c)
        \/ RegSendMessage(c)

SpecClose == InitRegistry /\ [][NextClose]_vars

\* C17: teardown is announced. The quit line that close_connection writes to
\* a registered connection whose transport is open is the last line written
\* to it: no PING of the keepalive task and no line of the application is
\* written to the connection after its quit line.
C17_QuitIsLast == \A c \in obs.registered : c \notin obs.afterQuit

\* C25: keepalive lifecycle. A connection has a keepalive task exactly when
\* it was registered: the task is started in the step that registers the
\* connection and never again.  The task ends only at a wake-up: either it
\* finds the transport closed and ends without writing or changing the
\* registry, or its PING fails, and then close_connection has run when it
\* ends: the transport is closed, the connection is out of the live set and
\* its disconnect event is queued.  No line is written to a closed transport.
C25_KeepaliveLifecycle ==
    /\ [](/\ \A c \in Conns : (task.ping[c] # "off") <=> (c \in obs.registered)
          /\ obs.lateWrites = {})
    /\ [][\A c \in Conns :
            /\ (task.ping[c] = "off" /\ task'.ping[c] # "off") =>
                (task'.ping[c] = "on" /\ c \in obs'.registered \ obs.registered)
            /\ task.ping[c] = "done" => task'.ping[c] = "done"
            /\ (task.ping[c] = "on" /\ task'.ping[c] # "on") =>
                /\ task'.ping[c] = "done"
                /\ \/ conn[c].closing /\ conn' = conn /\ server' = server /\ obs' = obs
                   \/ /\ ~conn[c].closing /\ conn'[c].closing
                      /\ c \notin SeqToSet(server'.connections)
                      /\ obs'.enq[c] = obs.enq[c] + 1
                      /\ Last(server'.disconnection_queue) = c
                      /\ obs'.afterQuit = obs.afterQuit]_vars

C25_Witness ==
    \E c \in obs.registered :
        /\ task.ping[c] = "done" /\ conn[c].closing
        /\ task.resp[c].pc = "idle" /\ app.calls = 0
        /\ obs.enq[c] = 1

(***************************************************************************)
(* SpecPrefix: get_response and send_message for any text of the           *)
(* application, a text that begins with "Y: " or "N: " included.           *)
(***************************************************************************)
Texts == {<<"text">>, <<>>, <<"Y: ", "text">>, <<"N: ", "text">>}

PrefixRespSend(c) == QueueRoom /\ \E prompt \in Texts : RespSend(c, prompt, WriteOk(c))
PrefixSendMessage(c) == QueueRoom /\ AppSendMessage(c, Texts)

NextPrefix ==
    \/ AppDrainQueues
    \/ \E c \in 1..MinConnections :
        \/ RegAccept(c)
        \/ CloseHandleFirst(c)
        \/ CloseHandleName(c)
        \/ RegPingConnection(c)
        \/ RegGetResponse(c)
        \/ PrefixRespSend(c)
        \/ RegRespRead(c)
        \/ PrefixSendMessage(c)

SpecPrefix == InitRegistry /\ [][NextPrefix]_vars

\* The part of C24 about every line: each line the server writes to a
\* socket-kind connection, PING apart, begins with "Y: " or "N: ".
EveryLinePrefixed == obs.bare = {}

\* C24: solicitation prefix. For a socket-kind connection and any text, one
\* beginning with "Y: " or "N: " included: the line get_response writes
\* begins with "Y: ", the line a send_message of the application writes
\* begins with "N: ", and every line written other than PING begins with
\* "Y: " or "N: ".
C24_SolicitationPrefix ==
    /\ obs.unasked = {}
    /\ obs.untold = {}
    /\ EveryLinePrefixed

(***************************************************************************)
(* SpecWrite: the registry with peers that send lines ahead of the prompts *)
(* (several lines in one chunk): readline returns such a line from         *)
(* Connection.buffer also after the transport was closed.                  *)
(***************************************************************************)
Pipelined(c, lines) ==
    \* what readline returns on c: a line the peer has sent, or end-of-stream
    lines \cup {None}

WriteHandleFirst(c) == QueueRoom /\ HandleFirst(c, Pipelined(c, HelloFirsts), WriteOk(c))
WriteHandleName(c) ==
    QueueRoom /\ HandleName(c, Pipelined(c, {PeerName(c), ShortRaw, Quit}), WriteOk(c))
WriteRespRead(c) ==
    QueueRoom /\ RespRead(c, Pipelined(c, {Reply(c), Quit}), WriteOk(c), {FALSE})

NextWrite ==
    \/ AppDrainQueues
    \/ \E c \in 1..MinConnections :
        \/ RegAccept(c)
        \/ WriteHandleFirst(c)
        \/ WriteHandleName(c)
        \/ RegPingConnection(c)
        \/ RegGetResponse(c)
        \/ RegRespSend(c)
        \/ WriteRespRead(c)
        \/ RegSendMessage(c)

SpecWrite == InitRegistry /\ [][NextWrite]_vars

InRegistry(c) ==
    \/ c \in SeqToSet(server.connections)
    \/ \E n \in DOMAIN server.names : server.names[n] = c

\* C26: write failures lead to teardown. Once a write to a connection has
\* returned failure the transport is closed and the connection is in
\* neither the live set nor the name index.
C26_FailedWriteTornDown ==
    \A c \in obs.failed : conn[c].closing /\ ~InRegistry(c)

(***************************************************************************)
(* SpecFan: the orchestrator and the registry with scheduling.  Every task *)
(* of the event loop that can run is run: the orchestrator, the frame sink *)
(* and the get_response tasks.  The read of a get_response task returns    *)
(* when the peer has sent a line or the transport was closed, which every  *)
(* peer of SpecFan does eventually.                                        *)
(***************************************************************************)
NextFan ==
    \/ GmPoll
    \/ GmSetupGame
    \/ GmPrepareRound
    \/ GmGetPlayerInput
    \/ GmWait
    \/ GmOnPlayerOutput
    \/ GmHandlePlayerOutput
    \/ GmUpdateGame
    \/ GmOnGameOver
    \/ VisualizerLoop
    \/ \E c \in 1..MinConnections :
        \/ Accept(c)
        \/ HandleFirst(c, {Hello}, {TRUE})
        \/ HandleName(c, {PeerName(c)}, {TRUE})
        \/ PingConnection(c, PeerOks(c))
        \/ RespSend(c, <<"prompt">>, PeerOks(c))
        \/ RespRead(c, PeerLines(c, {Reply(c)}), PeerOks(c), {FALSE})

FanoutFair ==
    /\ WF_vars(GmWait)
    /\ WF_vars(GmOnPlayerOutput)
    /\ WF_vars(VisualizerLoop)
    /\ \A c \in 1..MinConnections :
        /\ WF_vars(RespSend(c, <<"prompt">>, PeerOks(c)))
        /\ WF_vars(RespRead(c, PeerLines(c, {Reply(c)}), PeerOks(c), {FALSE}))

SpecFan == InitGame /\ [][NextFan]_vars /\ FanoutFair

Awaiting == gm.pc \in {"wait", "on_output"}

PromptedFirst ==
    \* the prompted players are the first ones of the roster
    \A i \in DOMAIN gm.response_indicies : gm.response_indicies[i] = i - 1

\* The fan-out of a round whose prompted players are the first ones of the
\* roster ends: every task settles, and the session goes on to
\* handle_player_output or reaches its ending.
FanoutProgressFirst ==
    (gm.pc = "wait" /\ PromptedFirst) ~> (gm.pc \in {"handle", "game_over"})

\* A get_response task on a closed connection does not stay unsettled.
ClosedSettles ==
    \A c \in 1..MinConnections :
        (task.resp[c].pc \in {"send", "read"} /\ conn[c].closing) ~> (task.resp[c].pc = "done")

\* C30: fan-out progress. When every prompted player of a round eventually
\* sends a reply line or has its connection closed, every get_response task
\* of the round settles and the session goes on to handle_player_output or
\* reaches its ending.
C30_FanoutProgress ==
    (gm.pc = "wait") ~> (gm.pc \in {"handle", "game_over"})

(***************************************************************************)
(* SpecSup: GameManager.start supervising its three tasks, start_server,   *)
(* visualizer_loop and game_loop.  A task that was cancelled gets          *)
(* CancelledError at the await it is suspended in, which the three         *)
(* coroutines catch at their top.                                          *)
(***************************************************************************)
AcceptDone == task.accept \in {"done", "cancelled"}

SinkDone == gm.sink \in {"dead", "done", "cancelled"}

LoopDone == gm.pc \in {"dead", "cancelled"}

StartServer ==
    \* asyncio.start_server returns, or fails and start_server returns
    /\ task.accept = "starting"
    /\ \E started \in BOOLEAN :
        task' = [task EXCEPT !.accept = IF started THEN "serving" ELSE "done"]
    /\ UNCHANGED <<lt, server, conn, heap, net, app, gm, obs>>

VisualizerQuit ==
    \* process_events saw pygame.QUIT: visualizer_loop returns
    /\ gm.sink = "running"
    /\ gm' = [gm EXCEPT !.sink = "done"]
    /\ UNCHANGED <<lt, server, conn, heap, net, task, app, obs>>

Results ==
    \* what done_task.result() raises, over the tasks that are done
    {gm.error : x \in {1} \cap {IF gm.pc = "dead" THEN 1 ELSE 0}}
        \cup {"RuntimeError" : x \in {1} \cap {IF gm.sink = "dead" THEN 1 ELSE 0}}

CaughtMutRuntimeErrorOnly(error) == error = "RuntimeError"

Caught(error) ==
    \* "except Exception": CancelledError and KeyboardInterrupt are not Exceptions
    error \notin {"CancelledError", "KeyboardInterrupt"}

CancelMutNone(status, done) == status

Cancel(status, done) ==
    \* pending_task.cancel(), for a task that is not done
    IF done THEN status ELSE "cancelling"

Supervise ==
    \* asyncio.wait returned: the done tasks are reported, the pending ones
    \* cancelled, and start waits for them (or stops when none is pending)
    /\ task.sup = "wait"
    /\ AcceptDone \/ SinkDone \/ LoopDone
    /\ IF \E e \in Results : ~Caught(e)
       THEN task' = [task EXCEPT !.sup = "raised"] /\ UNCHANGED gm
       ELSE /\ task' = [task EXCEPT
                            !.accept = Cancel(@, AcceptDone),
                            !.sup = IF AcceptDone /\ SinkDone /\ LoopDone THEN "stopped"
                                    ELSE "gather"]
            /\ gm' = [gm EXCEPT !.sink = Cancel(@, SinkDone),
                                !.pc = Cancel(@, LoopDone)]
    /\ UNCHANGED <<lt, server, conn, heap, net, app, obs>>

StartServerCancelled ==
    \* except asyncio.CancelledError in start_server
    /\ task.accept = "cancelling"
    /\ task' = [task EXCEPT !.accept = "cancelled"]
    /\ UNCHANGED <<lt, server, conn, heap, net, app, gm, obs>>

VisualizerLoopCancelled ==
    \* except asyncio.CancelledError in visualizer_loop
    /\ gm.sink = "cancelling"
    /\ gm' = [gm EXCEPT !.sink = "cancelled"]
    /\ UNCHANGED <<lt, server, conn, heap, net, task, app, obs>>

GameLoopCancelled ==
    \* except asyncio.CancelledError in game_loop
    /\ gm.pc = "cancelling"
    /\ gm' = [gm EXCEPT !.pc = "cancelled"]
    /\ UNCHANGED <<lt, server, conn, heap, net, task, app, obs>>

SuperviseEnd ==
    \* wait_for(gather(*pending), 10) returned: start returns
    /\ task.sup = "gather"
    /\ AcceptDone /\ SinkDone /\ LoopDone
    /\ task' = [task EXCEPT !.sup = "stopped"]
    /\ UNCHANGED <<lt, server, conn, heap, net, app, gm, obs>>

InitSup ==
    /\ lt = LtIdle
    /\ server = ServerInit
    /\ conn = ConnInit
    /\ heap = [c \in Conns |-> EmptyDict]
    /\ net = [c \in Conns |-> "none"]
    /\ task = [TaskInit EXCEPT !.accept = "starting", !.sup = "wait"]
    /\ app = [calls |-> 0]
    /\ gm = GmInit
    /\ obs = ObsInit

Running ==
    \* asyncio.run ends every task that is left when start has returned
    task.sup \notin {"stopped", "raised"}

SupHandleFirst(c) == Running /\ HandleFirst(c, {Hello}, {TRUE})
SupHandleName(c) == Running /\ HandleName(c, {PeerName(c)}, {TRUE})
SupPingConnection(c) == Running /\ PingConnection(c, PeerOks(c))
SupRespSend(c) == Running /\ RespSend(c, <<"prompt">>, PeerOks(c))
SupRespRead(c) == Running /\ RespRead(c, PeerLines(c, {Reply(c)}), PeerOks(c), {FALSE})

NextSup ==
    \/ StartServer
    \/ VisualizerQuit
    \/ Supervise
    \/ StartServerCancelled
    \/ VisualizerLoopCancelled
    \/ GameLoopCancelled
    \/ SuperviseEnd
    \/ GmPoll
    \/ GmSetupGame
    \/ GmPrepareRound
    \/ GmGetPlayerInput
    \/ GmWait
    \/ GmOnPlayerOutput
    \/ GmHandlePlayerOutput
    \/ GmUpdateGame
    \/ GmOnGameOver
    \/ VisualizerLoop
    \/ \E c \in 1..MinConnections :
        \/ Accept(c)
        \/ SupHandleFirst(c)
        \/ SupHandleName(c)
        \/ SupPingConnection(c)
        \/ SupRespSend(c)
        \/ SupRespRead(c)

Unwinding ==
    /\ WF_vars(Supervise)
    /\ WF_vars(StartServerCancelled)
    /\ WF_vars(VisualizerLoopCancelled)
    /\ WF_vars(GameLoopCancelled)
    /\ WF_vars(SuperviseEnd)

SpecSup == InitSup /\ [][NextSup]_vars /\ Unwinding

NoInputs == "RuntimeError: no inputs"

AllDone == AcceptDone /\ SinkDone /\ LoopDone

\* C14: supervisor convergence. Once one of the three tasks has finished,
\* with or without an exception, start_server having failed included, the
\* supervisor leaves its wait without raising and leaves no task running
\* that it did not cancel; every cancelled task ends; and the supervisor
\* stops, which it does only when the three tasks have ended.
C14_SupervisorConverges ==
    /\ [](task.sup # "raised")
    /\ [](task.sup = "stopped" => AllDone)
    /\ [][(task.sup = "wait" /\ task'.sup # "wait") =>
            /\ task'.accept \in {"done", "cancelled", "cancelling"}
            /\ gm'.sink \in {"dead", "done", "cancelled", "cancelling"}
            /\ gm'.pc \in {"dead", "cancelled", "cancelling"}]_vars
    /\ ((AcceptDone \/ SinkDone \/ LoopDone) ~> (task.sup = "stopped" /\ AllDone))

C14_Witness ==
    /\ task.sup = "stopped"
    /\ task.accept = "done"
    /\ gm.sink = "cancelled"
    /\ gm.pc = "cancelled"

\* C15: a round in which no participant yields a prompt is fatal. When the
\* last get_player_input of a round returns and no prompt was yielded, the
\* orchestrator task ends with the error of the fan-out; on_game_over is not
\* called for it, the task stays ended in the same round and session, and
\* the supervisor then cancels the other tasks and stops.
C15_NoPromptIsFatal ==
    /\ [][(gm.pc = "input" /\ gm'.pc \notin {"input", "cancelling"}
                /\ gm'.response_indicies = <<>>)
            => (gm'.pc = "dead" /\ gm'.error = NoInputs)]_vars
    /\ [](gm.error = NoInputs =>
            (gm.pc = "dead" /\ obs.inSession /\ obs.gameOverCalls = 0))
    /\ [][gm.error = NoInputs =>
            /\ gm'.error = NoInputs
            /\ gm'.round = gm.round
            /\ gm'.players = gm.players
            /\ obs'.started = obs.started]_vars
    /\ (gm.error = NoInputs ~>
            (task.sup = "stopped" /\ AcceptDone /\ SinkDone))

C15_Witness ==
    /\ gm.error = NoInputs
    /\ gm.pc = "dead"
    /\ gm.round = 1
    /\ task.sup = "stopped"
    /\ task.accept = "cancelled"
    /\ gm.sink = "cancelled"

(***************************************************************************)
(* SpecNorm: the normalization of the handshake as a function of the text  *)
(* the peer sent: letters, digits, underscore, punctuation and whitespace. *)
(***************************************************************************)
RawAlphabet == {"a", "1", "_", "!", " "}

RawTexts == UNION {[1..n -> RawAlphabet] : n \in 0..MaxRawLen}

InitNorm ==
    /\ lt = LtIdle
    /\ server = ServerInit
    /\ conn = ConnInit
    /\ heap = [c \in Conns |-> EmptyDict]
    /\ net = [c \in Conns |-> "none"]
    /\ task = TaskInit
    /\ gm = GmOff
    /\ obs = ObsInit
    /\ \E raw \in RawTexts :
        app = [calls |-> 0, pc |-> "raw", raw |-> raw, name |-> <<>>, again |-> <<>>]

NormalizeName ==
    \* the handshake normalizes the line it read
    /\ app.pc = "raw"
    /\ app' = [app EXCEPT !.pc = "once", !.name = Normalize(app.raw)]
    /\ UNCHANGED <<lt, server, conn, heap, net, task, gm, obs>>

NormalizeAgain ==
    \* the normalized name is sent as a name request and normalized again
    /\ app.pc = "once"
    /\ app' = [app EXCEPT !.pc = "twice", !.again = Normalize(app.name)]
    /\ UNCHANGED <<lt, server, conn, heap, net, task, gm, obs>>

NextNorm == NormalizeName \/ NormalizeAgain

SpecNorm == InitNorm /\ [][NextNorm]_vars

NormalForm(name) ==
    /\ \A i \in DOMAIN name : name[i] \in AlNum \cup {"_"}
    /\ \A i \in 1..(Len(name) - 1) : ~(name[i] = "_" /\ name[i + 1] = "_")

\* C11: normalization idempotence. For every text over letters, digits,
\* underscore, punctuation and whitespace, the normalized name holds only
\* letters, digits and single underscores (each run of other characters was
\* replaced by one underscore), and normalizing it again returns it unchanged.
C11_NormalizeIdempotent ==
    /\ app.pc \in {"once", "twice"} => NormalForm(app.name)
    /\ app.pc = "twice" => app.again = app.name

C11_Witness ==
    /\ app.pc = "twice"
    /\ app.raw = <<" ", "!", "a">>
    /\ app.again = <<"_", "a">>

(***************************************************************************)
(* SpecAttr: Connection.increment_attribute as a function of the dict, the *)
(* attribute and the amount.                                               *)
(***************************************************************************)
AttrNames == {"wins", "games"}

AttrDicts == UNION {[keys -> 0..MaxCount] : keys \in SUBSET AttrNames}

InitAttr ==
    /\ lt = LtIdle
    /\ server = ServerInit
    /\ conn = ConnInit
    /\ heap = [c \in Conns |-> EmptyDict]
    /\ net = [c \in Conns |-> "none"]
    /\ task = TaskInit
    /\ gm = GmOff
    /\ obs = ObsInit
    /\ \E attributes \in AttrDicts :
        app = [calls |-> 0, attributes |-> attributes, before |-> attributes,
               attribute |-> "wins", amount |-> 1]

AttrIncrementAttribute ==
    \* connection.increment_attribute(attribute, amount)
    /\ app.calls < MaxAppCalls
    /\ \E attribute \in AttrNames, amount \in 1..MaxAmount :
        app' = [calls |-> app.calls + 1, before |-> app.attributes,
                attribute |-> attribute, amount |-> amount,
                attributes |-> IncrementAttribute(app.attributes, attribute, amount)]
    /\ UNCHANGED <<lt, server, conn, heap, net, task, gm, obs>>

SpecAttr == InitAttr /\ [][AttrIncrementAttribute]_vars

Counter(attributes, attribute) ==
    IF attribute \in DOMAIN attributes THEN attributes[attribute] ELSE 0

OthersKept ==
    \* the call touched no counter but the named one
    /\ DOMAIN app.attributes = DOMAIN app.before \cup {app.attribute}
    /\ \A a \in DOMAIN app.before \ {app.attribute} : app.attributes[a] = app.before[a]

\* The part of C31 that does not depend on the amount: the named counter is
\* raised by 1, from 0 when it was absent, and the others are unchanged.
IncrementsByOne ==
    app.calls > 0 =>
        /\ Counter(app.attributes, app.attribute) = Counter(app.before, app.attribute) + 1
        /\ OthersKept

\* C31: increment_attribute(attribute, amount) raises the named counter by
\* exactly amount, counting from 0 when the attribute is absent, for every
\* amount, and leaves every other counter unchanged.
C31_IncrementByAmount ==
    app.calls > 0 =>
        /\ Counter(app.attributes, app.attribute)
                = Counter(app.before, app.attribute) + app.amount
        /\ OthersKept

InitLine == InitLt /\ InitReg /\ gm = GmOff

SpecReg == InitRegistry /\ [][NextReg]_vars

NextLine == ReadlineCall \/ ReadlineRead \/ ReadlineReset

SpecLine == InitLine /\ [][NextLine]_vars
====
